---- MODULE Spec2Model ----
(***************************************************************************)
(* nghx: run a package that lives in a GitHub repository from a local      *)
(* cache.  The model follows the CLI entry point (src/src/index.ts, main)  *)
(* and the utilities it calls (src/unnamed/part_000, lines 386-809):       *)
(* prepareRepository (clone or refresh the cached checkout) and runNpx     *)
(* (install, build, execute).  One invocation is a sequence of steps, one  *)
(* per awaited subprocess or file operation; the file system of one cache  *)
(* key, the remote branch and the clock are the shared state.              *)
(***************************************************************************)
EXTENDS Integers, Sequences, FiniteSets, TLC

\* ------------------------------------------------------------- bounds
\* Revisions the remote branch goes through.
MaxRev == 2
\* Clock horizon, in ticks of TickUnit milliseconds.
MaxTicks == 6
\* Invocations started in one behaviour.
MaxRuns == 2

\* Longest argument list given to runNpx.
MaxArgs == 2

TickUnit == 10 * 1000
MsPerMinute == 1000 * 60

Procs == {1, 2}
SeqProcs == {1}
Revs == 1..(MaxRev + 1)

\* ------------------------------------------------------------- text
\* Text is a sequence of one-character strings.
Digits == <<"0", "1", "2", "3", "4", "5", "6", "7", "8", "9">>
DigitChar(d) == Digits[d + 1]
IsDigit(c) == \E d \in 0..9 : Digits[d + 1] = c
DigitVal(c) == CHOOSE d \in 0..9 : Digits[d + 1] = c
IsSpace(c) == c \in {" ", "\n"}

\* Number.prototype.toString, base 10.
RECURSIVE NumberToString(_)
NumberToString(n) ==
    IF n < 0 THEN <<"-">> \o NumberToString(-n)
    ELSE IF n < 10 THEN <<DigitChar(n)>>
    ELSE NumberToString(n \div 10) \o <<DigitChar(n % 10)>>

RECURSIVE TrimStart(_)
TrimStart(s) == IF s # <<>> /\ IsSpace(Head(s)) THEN TrimStart(Tail(s)) ELSE s

RECURSIVE TrimEnd(_)
TrimEnd(s) ==
    IF s # <<>> /\ IsSpace(s[Len(s)]) THEN TrimEnd(SubSeq(s, 1, Len(s) - 1)) ELSE s

\* String.prototype.trim.
Trim(s) == TrimEnd(TrimStart(s))

RECURSIVE DigitPrefix(_)
DigitPrefix(s) ==
    IF s # <<>> /\ IsDigit(Head(s)) THEN <<Head(s)>> \o DigitPrefix(Tail(s)) ELSE <<>>

RECURSIVE DigitsValue(_)
DigitsValue(s) ==
    IF s = <<>> THEN 0
    ELSE 10 * DigitsValue(SubSeq(s, 1, Len(s) - 1)) + DigitVal(s[Len(s)])

\* parseInt(s, 10): leading white space, an optional sign, the longest run
\* of digits; NaN when there is no digit.
ParseInt(s) ==
    LET t == TrimStart(s)
        neg == t # <<>> /\ Head(t) = "-"
        u == IF t # <<>> /\ Head(t) \in {"-", "+"} THEN Tail(t) ELSE t
        d == DigitPrefix(u)
    IN  IF d = <<>> THEN [nan |-> TRUE, val |-> 0]
        ELSE [nan |-> FALSE, val |-> IF neg THEN 0 - DigitsValue(d) ELSE DigitsValue(d)]

\* ------------------------------------------------------------- git
\* Revision n of the branch has the identifier ShaOf(n); 0 is "no commit"
\* (a directory without usable repository metadata).
ShaOf(n) == <<"c", DigitChar(n)>>
RevOf(s) == CHOOSE n \in Revs : ShaOf(n) = s

\* What `git rev-parse <ref>` prints when it exits with code 0.
RevParseStdout(n) == ShaOf(n) \o <<"\n">>

\* How a spawned command ends: exit code 0, a non-zero exit code, killed by
\* a signal (code null), or the spawn itself fails ('error' event).
Outcomes == {"ok", "nonzero", "signal", "spawnerr"}
FsOutcomes == {"ok", "error"}

\* ------------------------------------------------------------- files
NoFile == [exists |-> FALSE, content |-> <<>>]
File(c) == [exists |-> TRUE, content |-> c]

\* package.json of the execution directory, as the build check finds it:
\* not there, not parsable, without or with a scripts.build entry.
Manifests == {"missing", "invalid", "nobuild", "build"}

VARIABLES
    now,            \* Date.now(), milliseconds
    remoteTip,      \* revision at the tip of the remote branch
    dirExists,      \* the checkout directory exists
    head,           \* revision checked out (0: none)
    originRef,      \* the local remote-tracking ref origin/<branch> (0: none)
    pullMarker,     \* the file .nghx-last-pull
    installMarker,  \* the file .nghx-last-install-sha
    inv,            \* per invocation: position and what it has done so far
    prev,           \* what the invocation that exited last did
    quiet,          \* the clock has not moved since an invocation last started
    tLastPull,      \* when the pull marker was last written (-1: not there)
    runs,           \* invocations started
    call            \* a planning step of runNpx taken alone: inputs and result

vars == <<now, remoteTip, dirExists, head, originRef, pullMarker, installMarker,
          inv, prev, quiet, tLastPull, runs, call>>

NoSha == [null |-> TRUE, str |-> <<>>]

\* The code of a child process that ended without one (code: number | null).
NullCode == -1

\* An invocation: pc is its position; the other fields record its inputs
\* and what it has observed and done.
\*   noUpdate            the flag given to prepareRepository
\*   soon                it started at the very time the one before started
\*   preDir .. preInstall the cache as prepareRepository found it
\*   preTPull            when the pull marker it found was written
\* (what only prepareRepository's outcome is judged by is forgotten once
\* runNpx starts: of the commands run so far the network ones are kept)
\*   mRead               how the read of the pull marker went
\*   tenAfter            its freshness check came ten seconds after the
\*                       invocation before it wrote the pull marker
\*   tipAtFetch          the remote tip when git fetch ran
\*   behind              when git fetch ran, the pull marker it had read was
\*                       a minute old or older and the remote tip was not
\*                       the revision checked out
\*   fetched             the output of git rev-parse origin/<branch>
\*   cmds, failed        the commands that ran, and those that exited non-zero
\*                       or could not be spawned
\*   faults              a file operation or a revision probe failed, a command
\*                       was killed, the execution path was not there, or
\*                       (once runNpx has started) a command of
\*                       prepareRepository failed
\*   wrotePull           it wrote the pull marker
\*   noPath              runNpx did not find the execution path
\*   nRead, nSha         needsDependencyInstallation: the marker read, the probe
\*   wroteInstall        it wrote the install marker
\*   iHead, wHead        the revision the checkout was at when the install
\*                       command ran, and the revision the install marker
\*                       was then made to name (0: none)
\*   noSha               the install command resolved and the probe after it
\*                       gave no revision (kept until the build check)
\*   manifest            what the build check found of package.json (kept
\*                       until the final program is started)
\*   err                 the error thrown ("usage": no URL was given)
\*   code, exit          the code the final program ended with, the exit code
\*                       of the invocation (-1: it has not exited)
Idle ==
    [pc |-> "idle", noUpdate |-> FALSE, soon |-> FALSE,
     preDir |-> FALSE, preHead |-> 0, prePull |-> NoFile, preInstall |-> NoFile,
     preTPull |-> -1,
     mRead |-> "none", tenAfter |-> FALSE, tipAtFetch |-> 0, behind |-> FALSE,
     fetched |-> <<>>,
     cmds |-> {}, failed |-> {}, faults |-> FALSE, wrotePull |-> FALSE,
     noPath |-> FALSE, nRead |-> "none", nSha |-> NoSha,
     wroteInstall |-> FALSE, noSha |-> FALSE, iHead |-> 0, wHead |-> 0,
     manifest |-> "none", err |-> "none", code |-> NullCode, exit |-> -1]

\* What is kept of an invocation once it has exited.
\*   net     it ran a git network command (clone or fetch)
\*   clean   it cloned and installed, every command ended with code 0, no
\*           file operation or probe failed, and it wrote both markers
\*   wrotePull  it wrote the pull marker
NoPrev ==
    [ran |-> FALSE, wrotePull |-> FALSE, net |-> FALSE, clean |-> FALSE]

NetCmds == {"clone", "fetch"}

Summary(s) ==
    [ran |-> TRUE, wrotePull |-> s.wrotePull,
     net |-> (s.cmds \cap NetCmds # {}),
     clean |-> /\ {"clone", "install"} \subseteq s.cmds
               /\ s.failed = {}
               /\ ~s.faults
               /\ s.wrotePull
               /\ s.wroteInstall]

NoCall == [stage |-> "none"]

\* Nothing is cached and no invocation has run.
NothingCached ==
    /\ now = 0
    /\ remoteTip = 1
    /\ dirExists = FALSE
    /\ head = 0
    /\ originRef = 0
    /\ pullMarker = NoFile
    /\ installMarker = NoFile
    /\ inv = [p \in Procs |-> Idle]
    /\ prev = NoPrev
    /\ quiet = FALSE
    /\ tLastPull = -1
    /\ runs = 0

Init ==
    /\ NothingCached
    /\ call = NoCall

\* ------------------------------------------------------------- helpers
\* runCommand: the promise resolves with whatever exit code the command
\* ends with, and rejects only when the command cannot be spawned.
RunCommand(o) == IF o = "spawnerr" THEN "reject" ELSE "resolve"

\* The runner rejecting whenever the command did not exit with code 0.
RunCommandWithOutputStrict(o) == IF o = "ok" THEN "resolve" ELSE "reject"

\* runCommandWithOutput: resolves on exit code 0 or null, rejects otherwise.
RunCommandWithOutput(o) == IF o \in {"ok", "signal"} THEN "resolve" ELSE "reject"

\* wasRecentlyPulled with the elapsed time left in milliseconds.
WasRecentlyPulledNoScale(marker, readOutcome, currentTime) ==
    IF ~marker.exists THEN FALSE
    ELSE IF readOutcome = "error" THEN FALSE
    ELSE LET lastPullTime == ParseInt(marker.content)
         IN  /\ ~lastPullTime.nan
             /\ (currentTime - lastPullTime.val) < 1

\* wasRecentlyPulled taking a marker without a number for one written at
\* time 0.
WasRecentlyPulledNaNAsZero(marker, readOutcome, currentTime) ==
    IF ~marker.exists THEN FALSE
    ELSE IF readOutcome = "error" THEN FALSE
    ELSE LET lastPullTime == ParseInt(marker.content)
         IN  (currentTime - lastPullTime.val) < 1 * MsPerMinute

\* wasRecentlyPulled: marker file -> is the checkout inside the window?
WasRecentlyPulled(marker, readOutcome, currentTime) ==
    IF ~marker.exists THEN FALSE
    ELSE IF readOutcome = "error" THEN FALSE
    ELSE LET lastPullTime == ParseInt(marker.content)
         IN  /\ ~lastPullTime.nan
             /\ (currentTime - lastPullTime.val) < 1 * MsPerMinute

\* updateLastPullTime writing the date as text, which begins with the name
\* of the day, instead of the number of milliseconds.
PullMarkerTextDate(currentTime) == <<"F", "r", "i", " ">> \o NumberToString(currentTime)

\* prepareRepository renewing the pull marker when it skips the refresh.
AfterWasRecentlyPulledTouch(recent) ==
    IF recent THEN "updateLastPullTime" ELSE "fetch"

\* if (await wasRecentlyPulled(repoCachePath)) return repoCachePath;
\* otherwise the refresh starts with git fetch.
AfterWasRecentlyPulled(recent) == IF recent THEN "prepared" ELSE "fetch"

\* fs.writeFile(file, data): what is in the file afterwards.
WriteFile(file, data, w) == IF w = "ok" THEN File(data) ELSE file

\* The marker writers letting the error of a failed write out.
MarkerWriteThrows(w) == IF w = "ok" THEN "return" ELSE "throw"

\* updateLastPullTime and updateLastDependencyInstallSha around their
\* write: the catch block logs the error and the function returns.
MarkerWrite(w) == "return"

\* What updateLastPullTime writes.
PullMarkerText(currentTime) == NumberToString(currentTime)

\* The refresh catch block rethrowing, as the clone's does.
OnRefreshErrorRethrow == "cloneCatch"

\* The refresh catch block starting the refresh again.
OnRefreshErrorRetry == "fetch"

\* Where prepareRepository goes when a refresh step rejects: the catch
\* block logs and returns the cache path.
OnRefreshError == "prepared"

\* The clone's catch block swallowing the error, as the refresh's does.
OnCloneErrorProceed == "prepared"

\* Where prepareRepository goes when mkdir or the clone rejects.
OnCloneError == "cloneCatch"

\* The standard output of `git rev-parse` as the runner collects it; a
\* command killed by a signal has printed its line before (printed) or not.
ProbeStdout(o, rev, printed) ==
    IF o = "ok" \/ (o = "signal" /\ printed) THEN RevParseStdout(rev) ELSE <<>>

\* A killed git command has printed a revision only where there is one.
CanPrint(o, rev, printed) == printed => (o = "signal" /\ dirExists /\ rev # 0)

\* getCurrentCommitSha: the trimmed output, or null when the runner rejects.
GetCurrentCommitSha(o, rev, printed) ==
    IF RunCommandWithOutput(o) = "resolve"
    THEN [null |-> FALSE, str |-> Trim(ProbeStdout(o, rev, printed))]
    ELSE NoSha

\* if (currentCommitSha) testing for null only.
TruthyNotNull(sha) == ~sha.null

\* JavaScript truthiness of a string-or-null.
Truthy(sha) == ~sha.null /\ sha.str # <<>>

\* needsDependencyInstallation trusting the marker when the probe gives
\* nothing.
NeedsDependencyInstallationTrusting(marker, readOutcome, sha) ==
    IF ~marker.exists THEN TRUE
    ELSE IF readOutcome = "error" THEN TRUE
    ELSE IF ~Truthy(sha) THEN FALSE
    ELSE Trim(marker.content) # Trim(sha.str)

\* needsDependencyInstallation asking only whether the marker is there.
NeedsDependencyInstallationOnce(marker, readOutcome, sha) ==
    IF ~marker.exists THEN TRUE
    ELSE IF readOutcome = "error" THEN TRUE
    ELSE ~Truthy(sha)

\* needsDependencyInstallation comparing the marker with the untrimmed
\* output of the probe.
NeedsDependencyInstallationRaw(marker, readOutcome, sha) ==
    IF ~marker.exists THEN TRUE
    ELSE IF readOutcome = "error" THEN TRUE
    ELSE IF ~Truthy(sha) THEN TRUE
    ELSE marker.content # sha.str \o <<"\n">>

\* needsDependencyInstallation.
NeedsDependencyInstallation(marker, readOutcome, sha) ==
    IF ~marker.exists THEN TRUE
    ELSE IF readOutcome = "error" THEN TRUE
    ELSE IF ~Truthy(sha) THEN TRUE
    ELSE Trim(marker.content) # Trim(sha.str)

\* A git command can end with code 0 only in a directory that holds a
\* repository.
GitCanSucceed(o) == o = "ok" => (dirExists /\ head # 0)

Set(p, r) == inv' = [inv EXCEPT ![p] = r]

\* The record of a command: it ran unless it could not be spawned; it
\* failed when it exited non-zero or could not be spawned; a command killed
\* by a signal counts with the faults.
Ran(s, cmd, o) ==
    [s EXCEPT !.cmds = IF o = "spawnerr" THEN @ ELSE @ \cup {cmd},
              !.failed = IF o \in {"nonzero", "spawnerr"} THEN @ \cup {cmd} ELSE @,
              !.faults = @ \/ o = "signal"]

\* ------------------------------------------------------------- main
\* main's catch block, and the usage error: process.exit(1).
Caught(s, error) == [s EXCEPT !.err = error, !.exit = 1, !.pc = "failed"]

\* What main is started with: no URL, a URL parseGitHubUrl rejects, or one
\* it accepts.
CommandLines == {"nourl", "badurl", "url"}

\* main: a new invocation.  Without a URL it exits at once; parseGitHubUrl
\* throws for a URL it cannot use, and so does fs.mkdir(cacheDir) when the
\* cache directory cannot be made; otherwise prepareRepository is next.
Start(p) ==
    /\ inv[p].pc = "idle"
    /\ runs < MaxRuns
    /\ \E nu \in BOOLEAN, line \in CommandLines, mk \in FsOutcomes :
        /\ line # "url" => (~nu /\ mk = "ok")
        /\ mk = "error" => ~nu
        /\ Set(p, IF line = "nourl" THEN Caught(Idle, "usage")
                  ELSE IF line = "badurl" THEN Caught(Idle, "url")
                  ELSE IF mk = "error" THEN Caught(Idle, "cachedir")
                  ELSE [Idle EXCEPT !.pc = "prepare", !.noUpdate = nu,
                                    !.soon = quiet])
    /\ quiet' = TRUE
    /\ runs' = runs + 1
    /\ UNCHANGED <<now, remoteTip, dirExists, head, originRef, pullMarker,
                   installMarker, prev, tLastPull, call>>

\* ------------------------------------------------------------- prepareRepository
\* prepareRepository without the noUpdate short cut.
AfterPathExistsAlwaysUpdate(repoExists, noUpdate) ==
    IF repoExists THEN "wasRecentlyPulled" ELSE "mkdir"

\* prepareRepository with the noUpdate short cut taken before looking at
\* the checkout.
AfterPathExistsFlagFirst(repoExists, noUpdate) ==
    IF noUpdate THEN "prepared"
    ELSE (IF repoExists THEN "wasRecentlyPulled" ELSE "mkdir")

\* Where prepareRepository goes once it knows whether the checkout is
\* there: straight back with noUpdate, to the freshness check without it,
\* to the clone when nothing is cached.
AfterPathExists(repoExists, noUpdate) ==
    IF repoExists
    THEN (IF noUpdate THEN "prepared" ELSE "wasRecentlyPulled")
    ELSE "mkdir"

\* pathExists(repoCachePath) and the noUpdate short cut.
PrepareRepository(p) ==
    LET s == inv[p]
        t == [s EXCEPT !.preDir = dirExists, !.preHead = head,
                       !.prePull = pullMarker, !.preInstall = installMarker,
                       !.preTPull = tLastPull]
    IN  /\ s.pc = "prepare"
        /\ Set(p, [t EXCEPT !.pc = AfterPathExists(dirExists, s.noUpdate)])
        /\ UNCHANGED <<now, remoteTip, dirExists, head, originRef, pullMarker,
                       installMarker, prev, quiet, tLastPull, runs, call>>

\* if (await wasRecentlyPulled(repoCachePath)) return repoCachePath;
CheckRecentlyPulled(p) ==
    LET s == inv[p] IN
    /\ s.pc = "wasRecentlyPulled"
    /\ \E r \in FsOutcomes :
        LET recent == WasRecentlyPulled(pullMarker, r, now)
            how == IF ~pullMarker.exists THEN "absent" ELSE r
        IN  Set(p, [s EXCEPT !.mRead = how,
                             !.faults = @ \/ how = "error",
                             !.tenAfter = /\ prev.wrotePull
                                          /\ now - tLastPull = TickUnit,
                             !.pc = AfterWasRecentlyPulled(recent)])
    /\ UNCHANGED <<now, remoteTip, dirExists, head, originRef, pullMarker,
                   installMarker, prev, quiet, tLastPull, runs, call>>

\* git fetch --depth=1 origin <branch>
Fetch(p) ==
    LET s == inv[p] IN
    /\ s.pc = "fetch"
    /\ \E o \in Outcomes :
        /\ GitCanSucceed(o)
        /\ originRef' = IF o = "ok" THEN remoteTip ELSE originRef
        /\ Set(p, [Ran(s, "fetch", o) EXCEPT
                     !.tipAtFetch = remoteTip,
                     !.behind = /\ s.mRead = "ok"
                                /\ now - s.preTPull >= MsPerMinute
                                /\ remoteTip # head,
                     !.pc = IF RunCommand(o) = "resolve" THEN "revparse"
                            ELSE OnRefreshError])
    /\ UNCHANGED <<now, remoteTip, dirExists, head, pullMarker, installMarker,
                   prev, quiet, tLastPull, runs, call>>

\* git rev-parse origin/<branch>
RevParse(p) ==
    LET s == inv[p] IN
    /\ s.pc = "revparse"
    /\ \E o \in Outcomes, printed \in BOOLEAN :
        /\ GitCanSucceed(o)
        /\ CanPrint(o, originRef, printed)
        /\ o = "ok" => originRef # 0
        /\ Set(p, [Ran(s, "revparse", o) EXCEPT
                     !.fetched = ProbeStdout(o, originRef, printed),
                     !.pc = IF RunCommandWithOutput(o) = "resolve" THEN "reset"
                            ELSE OnRefreshError])
    /\ UNCHANGED <<now, remoteTip, dirExists, head, originRef, pullMarker,
                   installMarker, prev, quiet, tLastPull, runs, call>>

\* git reset --hard <fetchedCommit.trim()>; with an empty argument git
\* resets to HEAD.
Reset(p) ==
    LET s == inv[p]
        target == Trim(s.fetched)
    IN  /\ s.pc = "reset"
        /\ \E o \in Outcomes :
            /\ GitCanSucceed(o)
            /\ head' = IF o = "ok" /\ target # <<>> THEN RevOf(target) ELSE head
            /\ Set(p, [Ran(s, "reset", o) EXCEPT
                         !.fetched = <<>>,
                         !.pc = IF RunCommand(o) = "resolve"
                                THEN "updateLastPullTime" ELSE OnRefreshError])
        /\ UNCHANGED <<now, remoteTip, dirExists, originRef, pullMarker,
                       installMarker, prev, quiet, tLastPull, runs, call>>

\* updateLastPullTime: a failed write is logged and swallowed.
UpdateLastPullTime(p) ==
    LET s == inv[p] IN
    /\ s.pc = "updateLastPullTime"
    /\ \E w \in FsOutcomes :
        /\ w = "ok" => dirExists
        /\ pullMarker' = WriteFile(pullMarker, PullMarkerText(now), w)
        /\ tLastPull' = IF w = "ok" THEN now ELSE tLastPull
        /\ Set(p, IF MarkerWrite(w) = "return"
                  THEN [s EXCEPT !.wrotePull = (w = "ok"),
                                 !.faults = @ \/ w = "error",
                                 !.pc = "prepared"]
                  ELSE [s EXCEPT !.faults = TRUE,
                                 !.pc = IF s.preDir THEN OnRefreshError
                                        ELSE OnCloneError])
    /\ UNCHANGED <<now, remoteTip, dirExists, head, originRef, installMarker,
                   prev, quiet, runs, call>>

\* fs.mkdir(path.dirname(repoCachePath), { recursive: true })
Mkdir(p) ==
    LET s == inv[p] IN
    /\ s.pc = "mkdir"
    /\ \E w \in FsOutcomes :
        Set(p, [s EXCEPT !.failed = IF w = "ok" THEN @ ELSE @ \cup {"mkdir"},
                         !.faults = @ \/ w = "error",
                         !.pc = IF w = "ok" THEN "clone" ELSE OnCloneError])
    /\ UNCHANGED <<now, remoteTip, dirExists, head, originRef, pullMarker,
                   installMarker, prev, quiet, tLastPull, runs, call>>

\* git clone --branch <branch> --depth=1 <url> <repoCachePath>.  A clone
\* that ends with code 0 leaves a checkout of the remote tip; one that
\* fails may or may not leave a partial directory behind; git refuses to
\* clone into a directory that is already there.
Clone(p) ==
    LET s == inv[p] IN
    /\ s.pc = "clone"
    /\ \E o \in Outcomes, partial \in BOOLEAN :
        /\ o = "ok" => ~dirExists
        /\ o = "ok" => ~partial
        /\ o = "spawnerr" => ~partial
        /\ dirExists' = (dirExists \/ o = "ok" \/ partial)
        /\ head' = IF o = "ok" THEN remoteTip ELSE head
        /\ originRef' = IF o = "ok" THEN remoteTip ELSE originRef
        /\ Set(p, [Ran(s, "clone", o) EXCEPT
                     !.pc = IF RunCommand(o) = "resolve"
                            THEN "updateLastPullTime" ELSE OnCloneError])
    /\ UNCHANGED <<now, remoteTip, pullMarker, installMarker, prev, quiet,
                   tLastPull, runs, call>>

\* The catch block of the clone: remove what is at the cache path, then
\* throw.  A failure of the removal is logged and swallowed.
CloneCatch(p) ==
    LET s == inv[p] IN
    /\ s.pc = "cloneCatch"
    /\ \E w \in FsOutcomes :
        LET removed == dirExists /\ w = "ok" IN
        /\ dirExists' = IF removed THEN FALSE ELSE dirExists
        /\ head' = IF removed THEN 0 ELSE head
        /\ originRef' = IF removed THEN 0 ELSE originRef
        /\ pullMarker' = IF removed THEN NoFile ELSE pullMarker
        /\ installMarker' = IF removed THEN NoFile ELSE installMarker
        /\ tLastPull' = IF removed THEN -1 ELSE tLastPull
    /\ Set(p, Caught(s, "clone"))
    /\ UNCHANGED <<now, remoteTip, prev, quiet, runs, call>>

\* ------------------------------------------------------------- runNpx
\* runNpx testing the checkout directory instead of the execution path.
NpxPathExistsRepoOnly(repoThere, subThere) == repoThere

\* pathExists(npxPath), npxPath = path.join(repoDir, subPath): the checkout
\* is there and holds the sub-path.
NpxPathExists(repoThere, subThere) == repoThere /\ subThere

\* if (!(await pathExists(npxPath))) throw ...
RunNpx(p) ==
    LET s == inv[p]
        t == [s EXCEPT !.preHead = 0, !.prePull = NoFile, !.preInstall = NoFile,
                        !.mRead = "none", !.tipAtFetch = 0, !.noUpdate = FALSE,
                        !.preDir = FALSE, !.soon = FALSE, !.preTPull = -1,
                        !.cmds = @ \cap NetCmds,
                        !.faults = @ \/ s.failed # {}, !.failed = {}]
    IN
    /\ s.pc = "prepared"
    /\ \E sub \in BOOLEAN :
        LET there == dirExists /\ sub
            u == [t EXCEPT !.noPath = ~there, !.faults = @ \/ ~there]
        IN  Set(p, IF NpxPathExists(dirExists, sub)
                   THEN [u EXCEPT !.pc = "needsInstall"]
                   ELSE Caught(u, "nopath"))
    /\ UNCHANGED <<now, remoteTip, dirExists, head, originRef, pullMarker,
                   installMarker, prev, quiet, tLastPull, runs, call>>

\* if (await needsDependencyInstallation(npxPath, repoDir, ...))
CheckNeedsInstall(p) ==
    LET s == inv[p] IN
    /\ s.pc = "needsInstall"
    /\ \E r \in FsOutcomes, o \in Outcomes, printed \in BOOLEAN :
        /\ GitCanSucceed(o)
        /\ CanPrint(o, head, printed)
        /\ LET sha == GetCurrentCommitSha(o, head, printed)
               needs == NeedsDependencyInstallation(installMarker, r, sha)
               how == IF ~installMarker.exists THEN "absent" ELSE r
           IN  Set(p, [s EXCEPT !.nRead = how,
                                !.nSha = IF how = "ok" THEN sha ELSE NoSha,
                                !.cmds = IF how = "ok" /\ o # "spawnerr"
                                         THEN @ \cup {"probe"} ELSE @,
                                !.faults = @ \/ how = "error"
                                             \/ (how = "ok" /\ o # "ok"),
                                !.pc = IF needs THEN "install"
                                       ELSE "buildCheck"])
    /\ UNCHANGED <<now, remoteTip, dirExists, head, originRef, pullMarker,
                   installMarker, prev, quiet, tLastPull, runs, call>>

\* await runCommand(installCommand, installArgs, npxPath)
Install(p) ==
    LET s == inv[p] IN
    /\ s.pc = "install"
    /\ \E o \in Outcomes :
        LET t == [Ran(s, "install", o) EXCEPT !.nRead = "none", !.nSha = NoSha]
        IN  Set(p, IF RunCommand(o) = "resolve"
                   THEN [t EXCEPT !.iHead = head, !.pc = "updateSha"]
                   ELSE Caught(t, "install"))
    /\ UNCHANGED <<now, remoteTip, dirExists, head, originRef, pullMarker,
                   installMarker, prev, quiet, tLastPull, runs, call>>

\* updateLastDependencyInstallSha: probe the revision again and write it;
\* nothing is written when the probe gives nothing, and a failed write is
\* logged and swallowed.
UpdateLastDependencyInstallSha(p) ==
    LET s == inv[p] IN
    /\ s.pc = "updateSha"
    /\ \E o \in Outcomes, w \in FsOutcomes, printed \in BOOLEAN :
        /\ GitCanSucceed(o)
        /\ CanPrint(o, head, printed)
        /\ w = "ok" => dirExists
        /\ LET sha == GetCurrentCommitSha(o, head, printed)
               written == Truthy(sha) /\ w = "ok"
               t == [s EXCEPT !.cmds = IF o # "spawnerr"
                                       THEN @ \cup {"probe"} ELSE @,
                              !.faults = @ \/ o # "ok" \/ w = "error"]
           IN  /\ installMarker' = IF Truthy(sha)
                                   THEN WriteFile(installMarker, sha.str, w)
                                   ELSE installMarker
               /\ Set(p, IF ~Truthy(sha) \/ MarkerWrite(w) = "return"
                         THEN [t EXCEPT !.wroteInstall = written,
                                        !.noSha = (sha.null \/ sha.str = <<>>),
                                        !.wHead = IF written THEN head ELSE 0,
                                        !.pc = "buildCheck"]
                         ELSE Caught(t, "install"))
    /\ UNCHANGED <<now, remoteTip, dirExists, head, originRef, pullMarker,
                   prev, quiet, tLastPull, runs, call>>

\* The build check asking only for a scripts entry.
RunBuildAnyScripts(m) == m \in {"nobuild", "build"}

\* The build check: package.json present, readable, parsable and with a
\* scripts.build entry.
RunBuild(m) == m = "build"

BuildCheck(p) ==
    LET s == inv[p] IN
    /\ s.pc = "buildCheck"
    /\ \E m \in Manifests :
        Set(p, [s EXCEPT !.nRead = "none", !.nSha = NoSha, !.manifest = m,
                         !.noSha = FALSE, !.iHead = 0, !.wHead = 0,
                         !.pc = IF RunBuild(m) THEN "build" ELSE "execute"])
    /\ UNCHANGED <<now, remoteTip, dirExists, head, originRef, pullMarker,
                   installMarker, prev, quiet, tLastPull, runs, call>>

\* await runCommand('npm', ['run', 'build'], npxPath)
Build(p) ==
    LET s == inv[p] IN
    /\ s.pc = "build"
    /\ \E o \in Outcomes :
        LET t == Ran(s, "build", o)
        IN  Set(p, IF RunCommand(o) = "resolve" THEN [t EXCEPT !.pc = "execute"]
                   ELSE Caught(t, "build"))
    /\ UNCHANGED <<now, remoteTip, dirExists, head, originRef, pullMarker,
                   installMarker, prev, quiet, tLastPull, runs, call>>

\* The codes the final program exits with.
ExitCodes == {0, 2}

\* The exit code turned into a success flag.
ExitCodeFlag(code) == IF code = 0 THEN 0 ELSE 1

\* What main passes to process.exit: code ?? 1.
ExitCodeOf(code) == IF code = NullCode THEN 1 ELSE code

\* The final program: await runCommand(commandToRun, commandArgs, npxPath)
Execute(p) ==
    LET s == inv[p] IN
    /\ s.pc = "execute"
    /\ \E o \in Outcomes, c \in ExitCodes :
        /\ (o = "ok") = (c = 0)
        /\ o \in {"signal", "spawnerr"} => c = 2
        /\ LET code == IF o = "signal" THEN NullCode ELSE c
               t == [s EXCEPT
                       !.manifest = "none",
                       !.cmds = IF o = "spawnerr" THEN @ ELSE @ \cup {"execute"},
                       !.faults = @ \/ o = "spawnerr"]
           IN  Set(p, IF RunCommand(o) = "resolve"
                      THEN [t EXCEPT !.code = code, !.exit = ExitCodeOf(code),
                                     !.pc = "done"]
                      ELSE Caught(t, "execute"))
    /\ UNCHANGED <<now, remoteTip, dirExists, head, originRef, pullMarker,
                   installMarker, prev, quiet, tLastPull, runs, call>>

\* process.exit: with the program's code, or with 1 from the catch block.
Exit(p) ==
    LET s == inv[p] IN
    /\ s.pc \in {"done", "failed"}
    /\ prev' = Summary(s)
    /\ Set(p, Idle)
    /\ UNCHANGED <<now, remoteTip, dirExists, head, originRef, pullMarker,
                   installMarker, quiet, tLastPull, runs, call>>

\* ------------------------------------------------------------- environment
\* Time passes: between invocations, and while an install runs.  The
\* clock is read at the freshness check and when the pull marker is
\* written, so time passing earlier in an invocation shows no differently
\* from time passing before it.
Tick ==
    /\ \A p \in Procs : inv[p].pc \in {"idle", "install"}
    /\ quiet' = FALSE
    /\ \E k \in {1, 5} :
        /\ now + k * TickUnit <= MaxTicks * TickUnit
        /\ now' = now + k * TickUnit
    /\ UNCHANGED <<remoteTip, dirExists, head, originRef, pullMarker,
                   installMarker, inv, prev, tLastPull, runs, call>>

\* Somebody pushes to the remote branch.
RemoteAdvance ==
    /\ remoteTip < MaxRev
    /\ \A p \in Procs : inv[p].pc \in {"idle", "fetch"}
    /\ remoteTip' = remoteTip + 1
    /\ UNCHANGED <<now, dirExists, head, originRef, pullMarker, installMarker,
                   inv, prev, quiet, tLastPull, runs, call>>

Step(p) ==
    \/ Start(p)
    \/ PrepareRepository(p)
    \/ CheckRecentlyPulled(p)
    \/ Fetch(p)
    \/ RevParse(p)
    \/ Reset(p)
    \/ UpdateLastPullTime(p)
    \/ Mkdir(p)
    \/ Clone(p)
    \/ CloneCatch(p)
    \/ RunNpx(p)
    \/ CheckNeedsInstall(p)
    \/ Install(p)
    \/ UpdateLastDependencyInstallSha(p)
    \/ BuildCheck(p)
    \/ Build(p)
    \/ Execute(p)
    \/ Exit(p)

\* Invocations one after the other.
Next == (\E p \in SeqProcs : Step(p)) \/ Tick \/ RemoteAdvance

Spec == Init /\ [][Next]_vars

\* An invocation that has started goes on: every promise main awaits
\* settles (each subprocess exits or fails to spawn, each file operation
\* completes) and Node then resumes the function.
Proceed(p) == inv[p].pc # "idle" /\ Step(p)

\* The program reads the clock and never waits on it (no timer, no sleep),
\* so the clock is left standing here.
LiveNext == (\E p \in SeqProcs : Step(p)) \/ RemoteAdvance
LiveSpec == Init /\ [][LiveNext]_vars /\ \A p \in SeqProcs : WF_vars(Proceed(p))

\* Somebody pushes to the branch, at any moment of either invocation.
RemotePush ==
    /\ remoteTip < MaxRev
    /\ remoteTip' = remoteTip + 1
    /\ UNCHANGED <<now, dirExists, head, originRef, pullMarker, installMarker,
                   inv, prev, quiet, tLastPull, runs, call>>

\* Two invocations at once: index.ts starts one invocation per process (CLI)
\* or per request (handleNghx is async and the server awaits nothing between
\* requests), and nothing in prepareRepository or runNpx takes a lock.  The
\* steps of both interleave at every await; the race is over within one clock
\* tick.
ConcNext == (\E p \in Procs : Step(p)) \/ RemotePush
ConcSpec == Init /\ [][ConcNext]_vars

TypeOK ==
    /\ now \in 0..(MaxTicks * TickUnit)
    /\ remoteTip \in Revs
    /\ dirExists \in BOOLEAN
    /\ head \in {0} \cup Revs
    /\ originRef \in {0} \cup Revs
    /\ ~dirExists => (~pullMarker.exists /\ ~installMarker.exists /\ head = 0)

\* ------------------------------------------------------------- package.json
\* A value of package.json as runNpx sees it: its type, its text when it is
\* a string (for a number, its decimal text), its entries <<key, value>>
\* when it is an object.
Undefined == [t |-> "undefined", s |-> <<>>, e |-> <<>>]
Str(s) == [t |-> "string", s |-> s, e |-> <<>>]
Num(n) == [t |-> "number", s |-> NumberToString(n), e |-> <<>>]
Obj(e) == [t |-> "object", s |-> <<>>, e |-> e]

\* if (v): undefined, the empty string and 0 are falsy.
JsTruthy(v) ==
    IF v.t = "undefined" THEN FALSE
    ELSE IF v.t = "string" THEN v.s # <<>>
    ELSE IF v.t = "number" THEN v.s # <<"0">>
    ELSE TRUE

\* The property key a string or a number stands for.
ToPropertyKey(v) == v.s

\* obj[key]
Get(obj, key) ==
    LET hits == {i \in 1..Len(obj.e) : obj.e[i][1] = key}
    IN  IF hits = {} THEN Undefined
        ELSE obj.e[CHOOSE i \in hits : \A j \in hits : i <= j][2]

\* String.prototype.endsWith
EndsWith(s, suffix) ==
    /\ Len(s) >= Len(suffix)
    /\ SubSeq(s, Len(s) - Len(suffix) + 1, Len(s)) = suffix

\* scriptToExecute.endsWith('.js') || ... '.mjs' || ... '.cjs'
IsNodeScript(s) ==
    \/ EndsWith(s, <<".", "j", "s">>)
    \/ EndsWith(s, <<".", "m", "j", "s">>)
    \/ EndsWith(s, <<".", "c", "j", "s">>)

\* The execution directory, and path.resolve(npxPath, script) for a
\* non-empty script without . or .. segments.
NpxPath == <<"/", "r">>
PathResolve(dir, script) ==
    IF script[1] = "/" THEN script ELSE dir \o <<"/">> \o script

\* package.json in the execution directory: not there, not readable, not
\* JSON, the JSON value null, or an object with these name, bin and main.
ManifestStates == {"missing", "unreadable", "unparsable", "null", "object"}
NoManifest(state) ==
    [state |-> state, name |-> Undefined, bin |-> Undefined, main |-> Undefined]

\* mainScript, binScript, packageName after the try block: all three stay
\* undefined unless package.json was read and parsed into an object.
ReadPackageJson(mf) ==
    IF mf.state = "object"
    THEN [main |-> mf.main, bin |-> mf.bin, name |-> mf.name]
    ELSE [main |-> Undefined, bin |-> Undefined, name |-> Undefined]

\* ------------------------------------------------------------- execution plan
\* The candidate entry point with main ahead of bin.
ScriptToExecuteMainFirst(pkg) ==
    IF JsTruthy(pkg.main) THEN pkg.main
    ELSE IF JsTruthy(pkg.bin) /\ pkg.bin.t = "string" THEN pkg.bin
    ELSE IF /\ JsTruthy(pkg.name)
            /\ JsTruthy(pkg.bin)
            /\ pkg.bin.t = "object"
            /\ JsTruthy(Get(pkg.bin, ToPropertyKey(pkg.name)))
         THEN Get(pkg.bin, ToPropertyKey(pkg.name))
    ELSE Undefined

\* scriptToExecute: binScript[packageName], else a string binScript, else
\* mainScript, else undefined.
ScriptToExecute(pkg) ==
    IF /\ JsTruthy(pkg.name)
       /\ JsTruthy(pkg.bin)
       /\ pkg.bin.t = "object"
       /\ JsTruthy(Get(pkg.bin, ToPropertyKey(pkg.name)))
    THEN Get(pkg.bin, ToPropertyKey(pkg.name))
    ELSE IF JsTruthy(pkg.bin) /\ pkg.bin.t = "string" THEN pkg.bin
    ELSE IF JsTruthy(pkg.main) THEN pkg.main
    ELSE Undefined

\* What the resolver comes to: a command with its arguments, or a TypeError
\* thrown out of runNpx.
Plan(command, args) == [threw |-> FALSE, command |-> command, args |-> args]
Threw == [threw |-> TRUE, command |-> "", args |-> <<>>]
Dot == <<".">>

\* The branch for an empty argument list.  path.resolve throws a TypeError
\* for an argument that is not a string, and no try block is around it.
DefaultPlan(mf, scriptExists) ==
    LET script == ScriptToExecute(ReadPackageJson(mf)) IN
    IF ~JsTruthy(script) THEN Plan("npx", <<Dot>>)
    ELSE IF script.t # "string" THEN Threw
    ELSE IF ~scriptExists THEN Plan("npx", <<Dot>>)
    ELSE IF IsNodeScript(script.s)
         THEN Plan("node", <<PathResolve(NpxPath, script.s)>>)
    ELSE Plan("npx", <<Dot>>)

\* DETERMINE HOW TO EXECUTE, lines 716-794.
ExecutionPlan(args, mf, scriptExists) ==
    IF Len(args) = 0 THEN DefaultPlan(mf, scriptExists)
    ELSE Plan("npx", <<Dot>> \o args)

\* The same step in the copy of runNpx at lines 234-385.
ExecutionPlanEarlier(args, mf, scriptExists) ==
    IF Len(args) = 0 THEN DefaultPlan(mf, scriptExists)
    ELSE Plan("npx", args)

\* ------------------------------------------------------------- install command
\* The lock files of the execution directory, as pathExists reports them.
LockFiles == [pnpm : BOOLEAN, yarn : BOOLEAN, npm : BOOLEAN]

\* installCommand and installArgs, lines 645-666.
InstallCommand(locks) ==
    IF locks.pnpm
    THEN Plan("pnpm", <<"install", "--prefer-offline", "--no-frozen-lockfile">>)
    ELSE IF locks.yarn
    THEN Plan("yarn", <<"install", "--prefer-offline">>)
    ELSE IF locks.npm
    THEN Plan("npm", <<"ci", "--prefer-offline", "--no-audit", "--progress=false">>)
    ELSE Plan("npm", <<"install", "--prefer-offline", "--no-audit", "--progress=false">>)

\* The same step in the copy of runNpx at lines 234-385.
InstallCommandEarlier(locks) ==
    IF locks.yarn
    THEN Plan("yarn", <<"install", "--frozen-lockfile">>)
    ELSE IF locks.pnpm
    THEN Plan("pnpm", <<"install", "--frozen-lockfile">>)
    ELSE IF locks.npm
    THEN Plan("npm", <<"ci", "--prefer-offline", "--no-audit", "--progress=false">>)
    ELSE Plan("npm", <<"install", "--prefer-offline", "--no-audit", "--progress=false">>)

\* ------------------------------------------------------------- planning alone
\* The two planning steps of runNpx are functions of the argument list and
\* of what the execution directory holds.  PlanSpec applies each of them,
\* in either copy of runNpx, to every input below.
ArgTexts == {<<"a">>, <<"-", "v">>}
ArgLists == UNION {[1..n -> ArgTexts] : n \in 0..MaxArgs}

ScriptTexts ==
    {<<>>, <<"a", ".", "j", "s">>, <<"b", ".", "m", "j", "s">>,
     <<"c", ".", "c", "j", "s">>, <<"d", ".", "s", "h">>,
     <<"/", "e", ".", "j", "s">>}
Names == {Undefined, Str(<<>>), Str(<<"p">>), Num(5)}
Mains == {Undefined, Num(5)} \cup {Str(t) : t \in ScriptTexts}
OwnEntries == {Str(<<>>), Str(<<"a", ".", "j", "s">>), Str(<<"d", ".", "s", "h">>), Num(7)}
OtherEntry == Str(<<"b", ".", "m", "j", "s">>)
BinObjects ==
    {Obj(<<>>), Obj(<< <<NumberToString(5), OtherEntry>> >>)}
    \cup {Obj(<< <<(<<"p">>), v>> >>) : v \in OwnEntries}
    \cup {Obj(<< <<(<<"p">>), v>>, <<NumberToString(5), OtherEntry>> >>) : v \in OwnEntries}
Bins ==
    {Undefined, Num(5), Str(<<>>), Str(<<"a", ".", "j", "s">>), Str(<<"d", ".", "s", "h">>)}
    \cup BinObjects
PackageJsons ==
    {NoManifest(st) : st \in ManifestStates \ {"object"}}
    \cup [state : {"object"}, name : Names, bin : Bins, main : Mains]

NoLocks == [pnpm |-> FALSE, yarn |-> FALSE, npm |-> FALSE]
NoPlan == Plan("", <<>>)

\* A planning step about to be taken: which one, and its inputs.
ResolveCalls ==
    [stage : {"in"}, kind : {"resolve"}, copy : {0},
     args : ArgLists, mf : PackageJsons, scriptExists : BOOLEAN,
     locks : {NoLocks}, script : {Undefined}, out : {NoPlan}]
InstallCalls ==
    [stage : {"in"}, kind : {"install"}, copy : {0},
     args : {<<>>}, mf : {NoManifest("missing")}, scriptExists : {FALSE},
     locks : LockFiles, script : {Undefined}, out : {NoPlan}]

PlanInit ==
    /\ NothingCached
    /\ call \in ResolveCalls \cup InstallCalls

\* The resolver of lines 716-794.
ResolveExecution ==
    /\ call.stage = "in"
    /\ call.kind = "resolve"
    /\ call' = [call EXCEPT
                  !.stage = "out", !.copy = 2,
                  !.script = IF Len(call.args) = 0
                             THEN ScriptToExecute(ReadPackageJson(call.mf))
                             ELSE Undefined,
                  !.out = ExecutionPlan(call.args, call.mf, call.scriptExists)]
    /\ UNCHANGED <<now, remoteTip, dirExists, head, originRef, pullMarker,
                   installMarker, inv, prev, quiet, tLastPull, runs>>

\* The resolver of lines 310-373.
ResolveExecutionEarlier ==
    /\ call.stage = "in"
    /\ call.kind = "resolve"
    /\ call' = [call EXCEPT
                  !.stage = "out", !.copy = 1,
                  !.script = IF Len(call.args) = 0
                             THEN ScriptToExecute(ReadPackageJson(call.mf))
                             ELSE Undefined,
                  !.out = ExecutionPlanEarlier(call.args, call.mf, call.scriptExists)]
    /\ UNCHANGED <<now, remoteTip, dirExists, head, originRef, pullMarker,
                   installMarker, inv, prev, quiet, tLastPull, runs>>

\* The choice of the install command, lines 645-666.
SelectInstallCommand ==
    /\ call.stage = "in"
    /\ call.kind = "install"
    /\ call' = [call EXCEPT !.stage = "out", !.copy = 2,
                            !.out = InstallCommand(call.locks)]
    /\ UNCHANGED <<now, remoteTip, dirExists, head, originRef, pullMarker,
                   installMarker, inv, prev, quiet, tLastPull, runs>>

\* The choice of the install command, lines 246-266.
SelectInstallCommandEarlier ==
    /\ call.stage = "in"
    /\ call.kind = "install"
    /\ call' = [call EXCEPT !.stage = "out", !.copy = 1,
                            !.out = InstallCommandEarlier(call.locks)]
    /\ UNCHANGED <<now, remoteTip, dirExists, head, originRef, pullMarker,
                   installMarker, inv, prev, quiet, tLastPull, runs>>

PlanNext ==
    \/ ResolveExecution
    \/ ResolveExecutionEarlier
    \/ SelectInstallCommand
    \/ SelectInstallCommandEarlier

PlanSpec == PlanInit /\ [][PlanNext]_vars

\* ------------------------------------------------------------- parseGitHubUrl
\* A URL is a sequence of symbols: single characters, and the words
\* https:, http:, github.com, .git, tree and main each taken as one symbol,
\* none of which any other symbol below runs into.
StartsWith(t, pre) == Len(t) >= Len(pre) /\ SubSeq(t, 1, Len(pre)) = pre
Drop(t, n) == SubSeq(t, n + 1, Len(t))

\* The length of the longest run of [^\/] at the start of t.
RECURSIVE NoSlashRun(_)
NoSlashRun(t) == IF t # <<>> /\ Head(t) # "/" THEN 1 + NoSlashRun(Tail(t)) ELSE 0

NoGroup == [set |-> FALSE, s |-> <<>>]
Group(s) == [set |-> TRUE, s |-> s]
NoMatch == [ok |-> FALSE, g3 |-> NoGroup, g4 |-> NoGroup]

\* (?:\/tree\/([^\/]+)(?:\/(.+))?)?$ on what follows the repository name.
MatchTree(rest) ==
    IF rest = <<>> THEN [ok |-> TRUE, g3 |-> NoGroup, g4 |-> NoGroup]
    ELSE IF ~StartsWith(rest, <<"/", "tree", "/">>) THEN NoMatch
    ELSE LET r == Drop(rest, 3)
             n == NoSlashRun(r)
         IN  IF n = 0 THEN NoMatch
             ELSE IF n = Len(r)
             THEN [ok |-> TRUE, g3 |-> Group(r), g4 |-> NoGroup]
             ELSE IF Len(r) > n + 1
             THEN [ok |-> TRUE, g3 |-> Group(SubSeq(r, 1, n)),
                   g4 |-> Group(Drop(r, n + 1))]
             ELSE NoMatch

\* ([^\/]+?)(?:\.git)?(?:...)?$ with a name of k symbols: the suffix .git
\* is taken when the rest matches with it, left to the name otherwise.
MatchRepo(t, k) ==
    LET after == Drop(t, k)
        withGit == IF StartsWith(after, <<".git">>) THEN MatchTree(Drop(after, 1))
                   ELSE NoMatch
    IN  IF withGit.ok THEN withGit ELSE MatchTree(after)

UrlPrefix == <<"https:", "/", "/", "github.com", "/">>

\* url.match(/^https:\/\/github\.com\/([^\/]+)\/([^\/]+?)(?:\.git)?
\*            (?:\/tree\/([^\/]+)(?:\/(.+))?)?$/): the groups, the lazy
\* second one being the shortest name the rest matches after.
MatchGitHubUrl(url) ==
    IF ~StartsWith(url, UrlPrefix) THEN [ok |-> FALSE]
    ELSE LET t == Drop(url, Len(UrlPrefix))
             n == NoSlashRun(t)
         IN  IF n = 0 \/ Len(t) < n + 1 THEN [ok |-> FALSE]
             ELSE LET u == Drop(t, n + 1)
                      ks == {k \in 1..NoSlashRun(u) : MatchRepo(u, k).ok}
                  IN  IF ks = {} THEN [ok |-> FALSE]
                      ELSE LET k == CHOOSE j \in ks : \A i \in ks : j <= i
                               m == MatchRepo(u, k)
                           IN  [ok |-> TRUE, g1 |-> SubSeq(t, 1, n),
                                g2 |-> SubSeq(u, 1, k), g3 |-> m.g3, g4 |-> m.g4]

\* s.replace(/\/$/, '')
StripSlash(s) ==
    IF s # <<>> /\ s[Len(s)] = "/" THEN SubSeq(s, 1, Len(s) - 1) ELSE s

\* The default branch taken to be master.
DefaultBranchMaster == <<"master">>

\* match[3] || 'main'
DefaultBranch == <<"main">>

UrlError == [threw |-> TRUE, owner |-> <<>>, repo |-> <<>>, branch |-> <<>>,
             subPath |-> <<>>]

\* parseGitHubUrl
ParseGitHubUrl(url) ==
    LET match == MatchGitHubUrl(url)
    IN  IF ~match.ok THEN UrlError
        ELSE [threw |-> FALSE,
              owner |-> match.g1,
              repo |-> match.g2,
              branch |-> IF match.g3.set /\ match.g3.s # <<>> THEN match.g3.s
                         ELSE DefaultBranch,
              subPath |-> IF match.g4.set THEN StripSlash(match.g4.s) ELSE <<>>]

\* ------------------------------------------------------------- cache path
\* A path is the sequence of its segments below the filesystem root.
\* getCacheDir: path.join(os.homedir(), '.cache', '_nghx_cache')
CacheDir == <<(<<"home">>), <<".cache">>, <<"_nghx_cache">> >>

\* The segments of one argument of path.join.
RECURSIVE PathSegments(_)
PathSegments(t) ==
    LET n == NoSlashRun(t)
    IN  IF n = Len(t) THEN <<t>>
        ELSE <<SubSeq(t, 1, n)>> \o PathSegments(Drop(t, n + 1))

\* path.normalize of an absolute path: empty segments and '.' are dropped,
\* '..' removes the segment before it, and nothing is above the root.
RECURSIVE Normalize(_, _)
Normalize(done, rest) ==
    IF rest = <<>> THEN done
    ELSE IF Head(rest) \in {<<>>, <<".">>} THEN Normalize(done, Tail(rest))
    ELSE IF Head(rest) = <<"..">>
         THEN Normalize(IF done = <<>> THEN <<>>
                        ELSE SubSeq(done, 1, Len(done) - 1), Tail(rest))
    ELSE Normalize(Append(done, Head(rest)), Tail(rest))

\* path.join(base, a, b, c)
PathJoin(base, a, b, c) ==
    Normalize(<<>>, base \o PathSegments(a) \o PathSegments(b) \o PathSegments(c))

\* branch.replace(/\//g, '_')
SafeBranchName(branch) ==
    [i \in 1..Len(branch) |-> IF branch[i] = "/" THEN "_" ELSE branch[i]]

\* repoCachePath = path.join(cacheDir, owner, repo, safeBranchName)
RepoCachePath(cacheDir, owner, repo, branch) ==
    PathJoin(cacheDir, owner, repo, SafeBranchName(branch))

\* ------------------------------------------------------------- helpers alone
\* wasRecentlyPulled, getCurrentCommitSha, parseGitHubUrl and the cache path
\* of prepareRepository are functions of what they are given and of what
\* they read.  HelperSpec applies each
\* of them to every input below.
MaxSegs == 4

MarkerTexts ==
    {<<>>, <<"x">>, <<" ">>, <<"\n">>, <<"-">>, <<"N", "a", "N">>, <<"x", "7">>,
     NumberToString(0), NumberToString(TickUnit), NumberToString(MsPerMinute),
     <<" ", "5">>, <<"1", "2", "x">>, NumberToString(TickUnit) \o <<"\n">>}
Times == {k * TickUnit : k \in 0..MaxTicks}

UrlPrefixes == {UrlPrefix, <<"http:", "/", "/", "github.com", "/">>}
UrlSegments == {<<>>, <<"a">>, <<"b">>, <<"tree">>, <<"a", ".git">>, <<"..">>}
UrlSegmentLists == UNION {[1..n -> UrlSegments] : n \in 0..MaxSegs}
UrlTails ==
    {<<>>, <<"/">>, <<"/", "/">>, <<"/", "a">>, <<"/", "a", "/">>,
     <<"/", "a", "/", "/">>, <<"/", "a", "/", "b">>, <<"/", "a", "/", "b", "/">>}

\* parts.join('/')
RECURSIVE Join(_)
Join(parts) ==
    IF parts = <<>> THEN <<>>
    ELSE IF Len(parts) = 1 THEN parts[1]
    ELSE parts[1] \o <<"/">> \o Join(Tail(parts))

FreshCalls ==
    [stage : {"in"}, kind : {"fresh"},
     marker : {NoFile} \cup {File(c) : c \in MarkerTexts},
     read : FsOutcomes, time : Times]
ProbeCalls ==
    {c \in [stage : {"in"}, kind : {"probe"}, o : Outcomes,
            rev : {0} \cup Revs, printed : BOOLEAN] :
        /\ c.o = "ok" => c.rev # 0
        /\ c.printed => (c.o = "signal" /\ c.rev # 0)}
UrlCalls ==
    [stage : {"in"}, kind : {"url"}, prefix : UrlPrefixes,
     segs : UrlSegmentLists, tail : UrlTails]

\* Two targets handed to prepareRepository.
Owners == {<<"a">>, <<"b">>, <<"..">>}
Repos == {<<"a">>, <<"..">>}
Branches == {<<"main">>, <<"a", "/", "b">>, <<"a", "_", "b">>, <<"..">>}
Targets == [owner : Owners, repo : Repos, branch : Branches]
PathCalls == [stage : {"in"}, kind : {"paths"}, t1 : Targets, t2 : Targets]

\* The URL a call is about.
UrlOf(c) == c.prefix \o Join(c.segs) \o c.tail

HelperInit ==
    /\ NothingCached
    /\ call \in FreshCalls \cup ProbeCalls \cup UrlCalls \cup PathCalls

\* wasRecentlyPulled, and what prepareRepository does with its answer.
CheckFreshness ==
    /\ call.stage = "in"
    /\ call.kind = "fresh"
    /\ LET recent == WasRecentlyPulled(call.marker, call.read, call.time)
       IN  call' = [stage |-> "out", kind |-> "fresh", marker |-> call.marker,
                    read |-> call.read, time |-> call.time,
                    recent |-> recent, next |-> AfterWasRecentlyPulled(recent)]
    /\ UNCHANGED <<now, remoteTip, dirExists, head, originRef, pullMarker,
                   installMarker, inv, prev, quiet, tLastPull, runs>>

\* getCurrentCommitSha
ProbeRevision ==
    /\ call.stage = "in"
    /\ call.kind = "probe"
    /\ call' = [stage |-> "out", kind |-> "probe", o |-> call.o,
                rev |-> call.rev, printed |-> call.printed,
                sha |-> GetCurrentCommitSha(call.o, call.rev, call.printed)]
    /\ UNCHANGED <<now, remoteTip, dirExists, head, originRef, pullMarker,
                   installMarker, inv, prev, quiet, tLastPull, runs>>

\* parseGitHubUrl
ParseUrl ==
    /\ call.stage = "in"
    /\ call.kind = "url"
    /\ call' = [stage |-> "out", kind |-> "url", prefix |-> call.prefix,
                segs |-> call.segs, tail |-> call.tail,
                out |-> ParseGitHubUrl(UrlOf(call))]
    /\ UNCHANGED <<now, remoteTip, dirExists, head, originRef, pullMarker,
                   installMarker, inv, prev, quiet, tLastPull, runs>>

\* prepareRepository's repoCachePath for what parseGitHubUrl returned.
LocateCheckout ==
    /\ call.stage = "out"
    /\ call.kind = "url"
    /\ ~call.out.threw
    /\ call' = [stage |-> "dir", kind |-> "url", prefix |-> call.prefix,
                segs |-> call.segs, tail |-> call.tail, out |-> call.out,
                dir |-> RepoCachePath(CacheDir, call.out.owner, call.out.repo,
                                      call.out.branch)]
    /\ UNCHANGED <<now, remoteTip, dirExists, head, originRef, pullMarker,
                   installMarker, inv, prev, quiet, tLastPull, runs>>

\* prepareRepository's repoCachePath for each of two targets.
LocateBoth ==
    /\ call.stage = "in"
    /\ call.kind = "paths"
    /\ call' = [stage |-> "out", kind |-> "paths", t1 |-> call.t1,
                t2 |-> call.t2,
                d1 |-> RepoCachePath(CacheDir, call.t1.owner, call.t1.repo,
                                     call.t1.branch),
                d2 |-> RepoCachePath(CacheDir, call.t2.owner, call.t2.repo,
                                     call.t2.branch)]
    /\ UNCHANGED <<now, remoteTip, dirExists, head, originRef, pullMarker,
                   installMarker, inv, prev, quiet, tLastPull, runs>>

HelperNext ==
    \/ CheckFreshness
    \/ ProbeRevision
    \/ ParseUrl
    \/ LocateCheckout
    \/ LocateBoth

HelperSpec == HelperInit /\ [][HelperNext]_vars

\* ------------------------------------------------------------- handleNghx
\* The MCP tool handler, with the utilities it is built with: their runner
\* captures the output and rejects unless the command exits with code 0.
\* The runner resolving whatever the exit code.
RunCommandCapturingAnyExit(o) == IF o = "spawnerr" THEN "reject" ELSE "resolve"

\* runCommand (capturing): resolve on code 0, reject on any other code, on a
\* signal (code null) and when the command cannot be spawned.
RunCommandCapturing(o) == IF o = "ok" THEN "resolve" ELSE "reject"

\* The handler's catch block: log and return an error result.
OnHandlerError == "out"

\* A request being handled: stage is the handler's position, ran and failed
\* the operations that ran and that failed, err what was thrown inside the
\* try block, launched and code the final program and its exit code,
\* isError the result's flag.
HandlerStart ==
    [stage |-> "parse", kind |-> "handle", ran |-> {}, failed |-> {},
     err |-> "none", launched |-> FALSE, code |-> NullCode, isError |-> FALSE]

\* An operation of the request ran with outcome o.
Did(h, what, o) ==
    [h EXCEPT !.ran = @ \cup {what},
              !.failed = IF o = "ok" THEN @ ELSE @ \cup {what}]

\* throw inside the try block.
Thrown(h, what) == [h EXCEPT !.err = what, !.stage = "catch"]

HandlerInit ==
    /\ NothingCached
    /\ call = HandlerStart

\* parseGitHubUrl(github_url); getCacheDir()
HandleParseUrl ==
    /\ call.stage = "parse"
    /\ \E u \in {"url", "badurl"} :
        call' = IF u = "badurl" THEN Thrown(Did(call, "url", "error"), "url")
                ELSE [Did(call, "url", "ok") EXCEPT !.stage = "pathExists"]
    /\ UNCHANGED <<now, remoteTip, dirExists, head, originRef, pullMarker,
                   installMarker, inv, prev, quiet, tLastPull, runs>>

\* prepareRepository: pathExists(repoCachePath) and wasRecentlyPulled
HandlePathExists ==
    /\ call.stage = "pathExists"
    /\ \E repoExists \in BOOLEAN, recent \in BOOLEAN :
        /\ recent => repoExists
        /\ call' = [call EXCEPT !.stage = IF ~repoExists THEN "mkdir"
                                          ELSE IF recent THEN "runNpx" ELSE "fetch"]
    /\ UNCHANGED <<now, remoteTip, dirExists, head, originRef, pullMarker,
                   installMarker, inv, prev, quiet, tLastPull, runs>>

\* prepareRepository: fetch, rev-parse, reset and updateLastPullTime; the
\* catch block logs and goes on with the cached checkout.
HandleRefresh ==
    /\ call.stage = "fetch"
    /\ \E o \in Outcomes :
        call' = [Did(call, "refresh", o) EXCEPT !.stage = "runNpx"]
    /\ UNCHANGED <<now, remoteTip, dirExists, head, originRef, pullMarker,
                   installMarker, inv, prev, quiet, tLastPull, runs>>

\* prepareRepository: fs.mkdir of the parent directory
HandleMkdir ==
    /\ call.stage = "mkdir"
    /\ \E w \in FsOutcomes :
        call' = [Did(call, "mkdir", w) EXCEPT
                    !.stage = IF w = "ok" THEN "clone" ELSE "cloneCatch"]
    /\ UNCHANGED <<now, remoteTip, dirExists, head, originRef, pullMarker,
                   installMarker, inv, prev, quiet, tLastPull, runs>>

\* prepareRepository: git clone, then updateLastPullTime (which swallows)
HandleClone ==
    /\ call.stage = "clone"
    /\ \E o \in Outcomes :
        call' = [Did(call, "clone", o) EXCEPT
                    !.stage = IF RunCommandCapturing(o) = "resolve"
                              THEN "runNpx" ELSE "cloneCatch"]
    /\ UNCHANGED <<now, remoteTip, dirExists, head, originRef, pullMarker,
                   installMarker, inv, prev, quiet, tLastPull, runs>>

\* prepareRepository: the clone's catch block removes the directory (a
\* failure of that is swallowed) and throws.
HandleCloneCatch ==
    /\ call.stage = "cloneCatch"
    /\ call' = Thrown(call, "clone")
    /\ UNCHANGED <<now, remoteTip, dirExists, head, originRef, pullMarker,
                   installMarker, inv, prev, quiet, tLastPull, runs>>

\* runNpx: the path check, the lock files and needsDependencyInstallation
\* (which answers true on any error).
HandleRunNpx ==
    /\ call.stage = "runNpx"
    /\ \E there \in BOOLEAN, needs \in BOOLEAN :
        call' = IF ~there THEN Thrown(Did(call, "path", "error"), "path")
                ELSE [call EXCEPT !.stage = IF needs THEN "install"
                                           ELSE "buildCheck"]
    /\ UNCHANGED <<now, remoteTip, dirExists, head, originRef, pullMarker,
                   installMarker, inv, prev, quiet, tLastPull, runs>>

\* runNpx: the install command and updateLastDependencyInstallSha (which
\* swallows); the catch block throws "Dependency installation failed".
HandleInstall ==
    /\ call.stage = "install"
    /\ \E o \in Outcomes :
        call' = IF RunCommandCapturing(o) = "resolve"
                THEN [Did(call, "install", o) EXCEPT !.stage = "buildCheck"]
                ELSE Thrown(Did(call, "install", o), "install")
    /\ UNCHANGED <<now, remoteTip, dirExists, head, originRef, pullMarker,
                   installMarker, inv, prev, quiet, tLastPull, runs>>

\* runNpx: the build check; an error in it is logged and swallowed.
HandleBuildCheck ==
    /\ call.stage = "buildCheck"
    /\ \E m \in Manifests :
        call' = [call EXCEPT !.stage = IF RunBuild(m) THEN "build"
                                        ELSE "select"]
    /\ UNCHANGED <<now, remoteTip, dirExists, head, originRef, pullMarker,
                   installMarker, inv, prev, quiet, tLastPull, runs>>

\* runNpx: npm run build; a failure is logged and swallowed.
HandleBuild ==
    /\ call.stage = "build"
    /\ \E o \in Outcomes :
        call' = [Did(call, "build", o) EXCEPT !.stage = "select"]
    /\ UNCHANGED <<now, remoteTip, dirExists, head, originRef, pullMarker,
                   installMarker, inv, prev, quiet, tLastPull, runs>>

\* runNpx: the command to run.  Without arguments and with a truthy main
\* that is not a string, path.resolve(npxPath, mainScript) throws a
\* TypeError.
HandleSelect ==
    /\ call.stage = "select"
    /\ \E noArgs \in BOOLEAN, main \in {"none", "string", "other"} :
        call' = IF noArgs /\ main = "other"
                THEN Thrown(Did(call, "select", "error"), "select")
                ELSE [call EXCEPT !.stage = "execute"]
    /\ UNCHANGED <<now, remoteTip, dirExists, head, originRef, pullMarker,
                   installMarker, inv, prev, quiet, tLastPull, runs>>

\* runNpx: the final command; its catch block rethrows.  handleNghx then
\* builds the result: isError: code !== 0.
HandleExecute ==
    /\ call.stage = "execute"
    /\ \E o \in Outcomes, c \in ExitCodes :
        /\ (o = "ok") = (c = 0)
        /\ o \in {"signal", "spawnerr"} => c = 2
        /\ LET code == IF o \in {"signal", "spawnerr"} THEN NullCode ELSE c
               h == [Did(call, "execute", o) EXCEPT
                        !.launched = (o # "spawnerr"), !.code = code]
           IN  call' = IF RunCommandCapturing(o) = "resolve"
                       THEN [h EXCEPT !.isError = (code # 0), !.stage = "out"]
                       ELSE Thrown(h, "execute")
    /\ UNCHANGED <<now, remoteTip, dirExists, head, originRef, pullMarker,
                   installMarker, inv, prev, quiet, tLastPull, runs>>

\* handleNghx: catch (error) { logError(...); return {content, isError: true} }
HandleCatch ==
    /\ call.stage = "catch"
    /\ call' = [call EXCEPT !.isError = TRUE, !.stage = OnHandlerError]
    /\ UNCHANGED <<now, remoteTip, dirExists, head, originRef, pullMarker,
                   installMarker, inv, prev, quiet, tLastPull, runs>>

HandlerNext ==
    \/ HandleParseUrl
    \/ HandlePathExists
    \/ HandleRefresh
    \/ HandleMkdir
    \/ HandleClone
    \/ HandleCloneCatch
    \/ HandleRunNpx
    \/ HandleInstall
    \/ HandleBuildCheck
    \/ HandleBuild
    \/ HandleSelect
    \/ HandleExecute
    \/ HandleCatch

HandlerSpec == HandlerInit /\ [][HandlerNext]_vars

\* ------------------------------------------------------------- claims
RefreshCmds == {"fetch", "revparse", "reset"}
RefreshPcs == {"wasRecentlyPulled", "fetch", "revparse", "reset", "updateLastPullTime"}
ClonePcs == {"mkdir", "clone", "cloneCatch"}

\* prepareRepository has returned to main.
Returned(s) == s.pc = "prepared"

\* The checkout and both markers are as prepareRepository found them.
CacheAsFound(s) ==
    /\ head = s.preHead
    /\ pullMarker = s.prePull
    /\ installMarker = s.preInstall

\* C1: when the checkout is present and stale and a step of the refresh
\* (fetch, rev-parse, reset) exits non-zero or cannot be spawned, the
\* checkout revision and both markers are, once prepareRepository has
\* returned, what they were before the call.
C1_FailedRefreshLeavesCache ==
    \A p \in Procs :
        LET s == inv[p] IN
        (Returned(s) /\ s.preDir /\ s.failed \cap RefreshCmds # {}) => CacheAsFound(s)

\* C2: with the checkout directory present on entry prepareRepository
\* never throws: whatever the marker read and the refresh commands do, it
\* stays on the refresh path or has returned the cache path.
C2_PresentNeverFails ==
    \A p \in Procs :
        LET s == inv[p] IN
        s.preDir => (s.pc \in RefreshPcs \cup {"prepared"} /\ s.err = "none")

\* C2 witness: a refresh step failed and prepareRepository returned.
C2_Witness ==
    \E p \in Procs :
        LET s == inv[p] IN
        Returned(s) /\ s.preDir /\ "fetch" \in s.failed /\ s.err = "none"

\* C3: when the checkout is absent and mkdir or the clone fails,
\* prepareRepository throws and no directory is left at the cache path.
C3_FailedCloneThrows ==
    \A p \in Procs :
        LET s == inv[p] IN
        (s.pc \in {"prepared", "failed"} /\ s.failed \cap {"mkdir", "clone"} # {})
            => (s.pc = "failed" /\ s.err = "clone" /\ ~dirExists)

\* C4: when the install command exits non-zero or cannot be spawned,
\* neither the build step nor the final program is launched and the
\* invocation does not end with the program's exit code.
C4_FailedInstallAborts ==
    \A p \in Procs :
        LET s == inv[p] IN
        "install" \in s.failed
            => (s.cmds \cap {"build", "execute"} = {} /\ s.pc # "done")

\* C5: needsDependencyInstallation answers true exactly when the install
\* marker is absent (or cannot be read), or the probe yields no revision,
\* or the trimmed marker differs from the trimmed revision; it answers
\* false only when the marker is there and names the revision checked out.
C5_NeedsInstallExactly ==
    \A p \in Procs :
        LET s == inv[p]
            absent == s.nRead \in {"absent", "error"}
            notAvailable == s.nSha.null
            differs == Trim(installMarker.content) # Trim(s.nSha.str)
        IN  s.nRead # "none" =>
              /\ (s.pc = "install") <=> (absent \/ notAvailable \/ differs)
              /\ (s.pc # "install") =>
                    (installMarker.exists /\ installMarker.content = ShaOf(head))

\* C5 witness: the marker is there, the probe gave the revision it names,
\* and the install is skipped.
C5_Witness ==
    \E p \in Procs :
        LET s == inv[p] IN
        s.nRead = "ok" /\ ~s.nSha.null /\ s.pc = "buildCheck"

\* C6: an install marker has been written only after an install command
\* that completed successfully, and it names the revision checked out.
C6_MarkerMeansInstalled ==
    \A p \in Procs :
        LET s == inv[p] IN
        s.wroteInstall
            => ("install" \notin s.failed /\ Trim(installMarker.content) = ShaOf(head))

\* The freshness check of this invocation has been made.
Checked(s) == s.pc \notin {"idle", "prepare", "wasRecentlyPulled"}

\* The pull marker was written less than a minute ago and could be read.
ReadFresh(s) ==
    /\ s.preDir
    /\ s.mRead = "ok"
    /\ s.preTPull >= 0
    /\ now - s.preTPull < MsPerMinute

\* C7: when the checkout is present and its pull marker holds a time less
\* than one minute before now, prepareRepository runs no git subprocess
\* and returns the path with the checkout revision and the pull marker
\* unchanged.
C7_FreshSkipsGit ==
    \A p \in Procs :
        LET s == inv[p] IN
        (Checked(s) /\ ReadFresh(s))
            => /\ Returned(s)
               /\ s.cmds = {}
               /\ head = s.preHead
               /\ pullMarker = s.prePull

\* C7 witness: a fresh marker was read and prepareRepository returned.
C7_Witness ==
    \E p \in Procs :
        LET s == inv[p] IN
        Returned(s) /\ ReadFresh(s) /\ now - s.preTPull = TickUnit

C9_RefreshReachesTip ==
    \A p \in Procs :
        LET s == inv[p] IN
        (Returned(s) /\ s.preDir /\ s.wrotePull)
            => (head = s.tipAtFetch /\ pullMarker = File(PullMarkerText(now)))

\* The invocation before this one cloned and installed without a failure,
\* this one made its freshness check ten seconds after the pull marker was
\* written, and nothing has failed in it.
TenSecondsAfterClean(s) ==
    /\ prev.clean
    /\ s.tenAfter
    /\ ~s.faults
    /\ s.failed = {}

\* C10: an invocation that follows, ten seconds later, one that cloned and
\* installed successfully runs no git network command and no install
\* command, and ends by launching the final program.
C10_SecondRunOnlyExecutes ==
    \A p \in Procs :
        LET s == inv[p] IN
        TenSecondsAfterClean(s)
            => /\ s.pc \notin RefreshPcs \cup ClonePcs \cup {"install", "updateSha", "failed"}
               /\ s.cmds \cap {"clone", "fetch", "install"} = {}
               /\ s.pc = "done" => "execute" \in s.cmds

\* C10 witness: such a second invocation has launched the final program.
C10_Witness ==
    \E p \in Procs :
        LET s == inv[p] IN
        TenSecondsAfterClean(s) /\ s.pc = "done" /\ "execute" \in s.cmds

\* The refresh found the checkout a minute or more old and behind the
\* remote, and every command and file operation since has succeeded.
RefreshedBehind(s) ==
    /\ s.behind
    /\ ~s.faults
    /\ s.failed = {}

\* The invocation is past the install stage of runNpx.
PastInstall(s) == s.pc \in {"buildCheck", "build", "execute", "done"}

\* C11: when an invocation refreshes a checkout last refreshed a minute or
\* more ago, the remote branch has moved to a new revision, and fetch,
\* reset and install succeed, the checkout moves to the new remote tip,
\* the install command runs again, and the install marker ends up naming
\* the new revision.
C11_AdvanceReinstalls ==
    \A p \in Procs :
        LET s == inv[p] IN
        RefreshedBehind(s)
            => /\ s.pc # "failed"
               /\ s.pc \in {"updateLastPullTime", "prepared"}
                     => (head = s.tipAtFetch /\ head # s.preHead)
               /\ s.pc \notin RefreshPcs => head = originRef
               /\ PastInstall(s)
                     => ("install" \in s.cmds /\ installMarker = File(ShaOf(head)))

\* C11 witness: such an invocation has reinstalled at the new tip and
\* launched the final program.
C11_Witness ==
    \E p \in Procs :
        LET s == inv[p] IN
        /\ RefreshedBehind(s)
        /\ s.pc = "done"
        /\ "install" \in s.cmds
        /\ head = remoteTip /\ head > 1
        /\ installMarker = File(ShaOf(head))

\* A resolver step has been taken; one with an empty argument list.
Resolved == call.stage = "out" /\ call.kind = "resolve"
ResolvedDefault == Resolved /\ Len(call.args) = 0

\* C12: for every argument list and every state of package.json the
\* resolver produces a plan, a command with a non-empty argument list,
\* and throws nothing.
C12_ResolutionNeverFails ==
    Resolved =>
        /\ ~call.out.threw
        /\ call.out.command \in {"node", "npx"}
        /\ call.out.args # <<>>

\* The entries of package.json a candidate can come from: the bin entry
\* under the package's own name, bin itself as a string, main.  An entry
\* that is missing or empty is not available.
OwnBinEntry(mf) ==
    IF mf.state = "object" /\ JsTruthy(mf.name) /\ mf.bin.t = "object"
    THEN Get(mf.bin, ToPropertyKey(mf.name))
    ELSE Undefined
StringBin(mf) ==
    IF mf.state = "object" /\ mf.bin.t = "string" THEN mf.bin ELSE Undefined
MainEntry(mf) ==
    IF mf.state = "object" THEN mf.main ELSE Undefined

\* C13: with an empty argument list the candidate entry point is the bin
\* entry under the package's own name when there is one, otherwise bin
\* when it is a string, otherwise main, otherwise nothing; an entry of
\* lower priority is never taken while one of higher priority is there.
C13_CandidatePriority ==
    ResolvedDefault =>
        LET own == OwnBinEntry(call.mf)
            bin == StringBin(call.mf)
            main == MainEntry(call.mf)
        IN  /\ JsTruthy(own) => call.script = own
            /\ (~JsTruthy(own) /\ JsTruthy(bin)) => call.script = bin
            /\ (~JsTruthy(own) /\ ~JsTruthy(bin) /\ JsTruthy(main))
                  => call.script = main
            /\ (~JsTruthy(own) /\ ~JsTruthy(bin) /\ ~JsTruthy(main))
                  => call.script = Undefined

\* C13 witness: the own bin entry and main are both there, they differ,
\* and the bin entry is the candidate.
C13_Witness ==
    /\ ResolvedDefault
    /\ JsTruthy(OwnBinEntry(call.mf))
    /\ JsTruthy(MainEntry(call.mf))
    /\ OwnBinEntry(call.mf) # MainEntry(call.mf)
    /\ call.script = OwnBinEntry(call.mf)

\* C14: with an empty argument list the plan is node with the resolved
\* path of the candidate exactly when a candidate was chosen, its resolved
\* path exists and it ends in .js, .mjs or .cjs; in every other case the
\* plan is npx with the single argument '.'.
C14_NodeOrNpxDot ==
    ResolvedDefault =>
        LET script == call.script
            runnable == /\ JsTruthy(script)
                        /\ script.t = "string"
                        /\ call.scriptExists
                        /\ IsNodeScript(script.s)
        IN  IF runnable
            THEN call.out = Plan("node", <<PathResolve(NpxPath, script.s)>>)
            ELSE call.out = Plan("npx", <<Dot>>)

\* C15: with a non-empty argument list the plan is npx with '.' followed
\* by the caller's arguments as given, whatever package.json holds.
C15_ArgumentsPassedThrough ==
    (Resolved /\ Len(call.args) > 0)
        => call.out = Plan("npx", <<Dot>> \o call.args)

\* C18: the install command follows the lock files in the order pnpm,
\* yarn, package-lock.json, none: pnpm when pnpm-lock.yaml is there,
\* otherwise yarn when yarn.lock is there, otherwise npm ci when
\* package-lock.json is there, otherwise npm install.
C18_LockFilePriority ==
    (call.stage = "out" /\ call.kind = "install") =>
        LET locks == call.locks
            chosen == <<call.out.command, call.out.args[1]>>
        IN  /\ locks.pnpm => chosen = <<"pnpm", "install">>
            /\ (~locks.pnpm /\ locks.yarn) => chosen = <<"yarn", "install">>
            /\ (~locks.pnpm /\ ~locks.yarn /\ locks.npm) => chosen = <<"npm", "ci">>
            /\ (~locks.pnpm /\ ~locks.yarn /\ ~locks.npm) => chosen = <<"npm", "install">>

\* C16 as stated: whenever the final program was launched and has ended,
\* the exit code of the invocation is the code the program ended with,
\* also when it ended without a numeric code.
C16_AsClaimed ==
    \A p \in Procs :
        LET s == inv[p] IN
        s.pc = "done" => s.exit = s.code

\* C16 (amended): when the final program ends with a numeric code the
\* invocation exits with that very code; when it ends without one (it was
\* killed by a signal) the invocation exits with 1.
C16_ExitCodePropagates ==
    \A p \in Procs :
        LET s == inv[p] IN
        s.pc = "done" =>
            /\ "execute" \in s.cmds
            /\ s.code # NullCode => s.exit = s.code
            /\ s.code = NullCode => s.exit = 1

\* C16 witness: the final program ended with code 2 and so does the
\* invocation.
C16_Witness ==
    \E p \in Procs :
        LET s == inv[p] IN
        s.pc = "done" /\ s.code = 2 /\ s.exit = 2

\* What the claim counts as a failure of the orchestration: no URL, a URL
\* that cannot be used, a clone or an install that failed, an execution
\* path that is not there.
OrchestrationFailed(s) ==
    \/ s.err \in {"usage", "url", "cachedir", "clone", "nopath", "install"}
    \/ s.failed \cap {"mkdir", "clone", "install"} # {}

\* C17: without a URL the invocation exits with 1 having run nothing, and
\* after any failure of the orchestration it exits with 1 and the final
\* program is never launched.
C17_FailureExitsOne ==
    \A p \in Procs :
        LET s == inv[p] IN
        /\ s.err = "usage" => (s.exit = 1 /\ s.cmds = {} /\ ~s.preDir)
        /\ OrchestrationFailed(s) =>
              /\ "execute" \notin s.cmds
              /\ s.pc \in {"done", "failed"} => (s.pc = "failed" /\ s.exit = 1)

\* The positions of an invocation, stage by stage.
SyncPcs == {"prepare", "prepared"} \cup RefreshPcs \cup ClonePcs
InstallPcs == {"needsInstall", "install", "updateSha"}
BuildPcs == {"buildCheck", "build"}
StageCmds == {"install", "build", "execute"}

\* C19: within an invocation the stages run in the order synchronize,
\* install, build, execute, one after the other: no command of a later
\* stage has been started while an earlier stage is under way, the final
\* program is launched at most once and last, and only after
\* prepareRepository has returned without throwing.
C19_StagesInOrder ==
    \A p \in Procs :
        LET s == inv[p] IN
        /\ s.pc \in SyncPcs => s.cmds \cap (StageCmds \cup {"probe"}) = {}
        /\ s.pc \in {"needsInstall", "install"} => s.cmds \cap StageCmds = {}
        /\ s.pc \in {"updateSha"} \cup BuildPcs
              => s.cmds \cap {"build", "execute"} = {}
        /\ s.pc = "execute" => "execute" \notin s.cmds
        /\ "execute" \in s.cmds => s.pc = "done"
        /\ s.pc \in InstallPcs \cup BuildPcs \cup {"execute", "done"}
              => s.err = "none"
        /\ s.pc = "prepared"
              => ("mkdir" \notin s.failed
                  /\ ("clone" \in s.failed => "clone" \in s.cmds))

\* C19 witness: an invocation that cloned, installed and built has launched
\* the final program.
C19_Witness ==
    \E p \in Procs :
        LET s == inv[p] IN
        s.pc = "done" /\ {"clone", "install", "build", "execute"} \subseteq s.cmds

\* The checkout is present, noUpdate is set and prepareRepository has
\* looked at the cache path.
SkippedUpdate(s) ==
    /\ s.preDir
    /\ s.noUpdate
    /\ s.pc \notin {"idle", "prepare"}

\* C20: with the checkout present and noUpdate set, prepareRepository
\* returns the cache path without reading the pull marker and without a
\* git subprocess, and leaves the checkout and the pull marker as they
\* were, whatever the age of the marker.
C20_NoUpdateSkips ==
    \A p \in Procs :
        LET s == inv[p] IN
        SkippedUpdate(s)
            => /\ Returned(s)
               /\ s.mRead = "none"
               /\ s.cmds = {}
               /\ dirExists
               /\ head = s.preHead
               /\ pullMarker = s.prePull

\* C20 witness: prepareRepository returned with noUpdate over a pull marker
\* a minute old or older.
C20_Witness ==
    \E p \in Procs :
        LET s == inv[p] IN
        /\ SkippedUpdate(s) /\ Returned(s)
        /\ s.prePull.exists
        /\ now - s.preTPull >= MsPerMinute

\* The text starts, white space and one sign aside, with a decimal digit:
\* it holds a number that can be read.
StartsWithNumber(t) ==
    \E i \in 1..Len(t) :
        /\ IsDigit(t[i])
        /\ \A j \in 1..(i - 1) :
            IsSpace(t[j]) \/ (j = i - 1 /\ t[j] \in {"-", "+"})

FreshnessChecked == call.stage = "out" /\ call.kind = "fresh"

\* C21: when the pull marker is absent, cannot be read, or holds no number
\* that can be read as a time, wasRecentlyPulled answers false and
\* prepareRepository goes on to the refresh (git fetch) instead of
\* skipping it.
C21_StaleWithoutTimestamp ==
    (/\ FreshnessChecked
     /\ \/ ~call.marker.exists
        \/ call.read = "error"
        \/ ~StartsWithNumber(call.marker.content))
        => (~call.recent /\ call.next = "fetch")

\* C21 witness: a marker that is there and was read, holding a letter,
\* checked at the very time it would have been written.
C21_Witness ==
    /\ FreshnessChecked
    /\ call.marker = File(<<"x">>)
    /\ call.read = "ok"
    /\ call.time = 0
    /\ call.next = "fetch"

\* The reset or the clone of this invocation was started and resolved, and
\* the pull marker was not written after it: its write failed.
PullMarkerWriteFailed(s) ==
    /\ s.cmds \cap {"reset", "clone"} # {}
    /\ s.pc # "updateLastPullTime"
    /\ ~s.wrotePull

\* The install command was started and resolved, and the install marker
\* was not written after it: the probe gave nothing or the write failed.
InstallMarkerNotWritten(s) ==
    /\ "install" \in s.cmds
    /\ s.pc \notin {"install", "updateSha"}
    /\ ~s.wroteInstall

MarkerNamesHead ==
    ~NeedsDependencyInstallation(installMarker, "ok",
                                 [null |-> FALSE, str |-> ShaOf(head)])

\* C23 as claimed: when the install command resolved and the probe after
\* it gave no revision, the install marker is not written and what is left
\* makes the next invocation install again.
C23_AsClaimed ==
    \A p \in Procs :
        LET s == inv[p] IN
        s.noSha => (~s.wroteInstall /\ ~MarkerNamesHead)

\* C23: the step of updateLastDependencyInstallSha whose probe gives no
\* revision leaves the install marker exactly as it was and goes on to the
\* build check.
C23_NoRevisionNoWrite ==
    [][\A p \in Procs :
         (inv[p].pc = "updateSha" /\ inv'[p].noSha)
             => /\ installMarker' = installMarker
                /\ ~inv'[p].wroteInstall
                /\ inv'[p].pc = "buildCheck"]_vars

\* C23 witness: installed, no revision from the probe, and the marker left
\* names the revision checked out.
C23_Witness ==
    \E p \in Procs :
        LET s == inv[p] IN
        /\ s.noSha
        /\ "install" \in s.cmds
        /\ installMarker.exists
        /\ MarkerNamesHead

RevisionProbed == call.stage = "out" /\ call.kind = "probe"

\* C24 as claimed: getCurrentCommitSha gives null when the command exits
\* non-zero or cannot be spawned, and a revision identifier only when the
\* command exited with code 0.
C24_AsClaimed ==
    RevisionProbed
        => /\ call.o \in {"nonzero", "spawnerr"} => call.sha.null
           /\ Truthy(call.sha) => call.o = "ok"

\* C24: getCurrentCommitSha always returns; it gives null exactly when the
\* command exits non-zero or cannot be spawned (as git does without
\* repository metadata), and otherwise the trimmed output: the revision
\* when the command exited with 0 or was killed after printing it, the
\* empty string when it was killed before.
C24_ProbeNeverRaises ==
    RevisionProbed
        => /\ call.sha.null <=> call.o \in {"nonzero", "spawnerr"}
           /\ call.rev = 0 => ~Truthy(call.sha)
           /\ ~call.sha.null
               => call.sha.str = IF call.o = "ok" \/ call.printed
                                 THEN ShaOf(call.rev) ELSE <<>>

\* C24 witness: the command was killed by a signal after it had printed
\* the revision.
C24_Witness ==
    /\ RevisionProbed
    /\ call.o = "signal"
    /\ call.printed
    /\ call.sha = [null |-> FALSE, str |-> ShaOf(call.rev)]

\* C25: the cache directory goes from present to absent only in the step
\* of the clone's catch block, taken by an invocation that found it absent
\* when it entered prepareRepository.
C25_CheckoutNeverRemoved ==
    [][(dirExists /\ ~dirExists')
           => \E p \in Procs : inv[p].pc = "cloneCatch" /\ ~inv[p].preDir]_vars

\* C25 witness: an invocation that found the checkout present has
\* refreshed it, installed, built and run the program, and the checkout is
\* there.
C25_Witness ==
    \E p \in Procs :
        LET s == inv[p] IN
        /\ s.pc = "done"
        /\ {"fetch", "install", "build", "execute"} \subseteq s.cmds
        /\ dirExists

\* C26: the build command is started exactly when the build check found a
\* package.json that declares scripts.build, whether or not the install
\* command ran; with package.json missing or unparsable the invocation
\* goes on to the final program without an error.
C26_BuildExactlyWhenDeclared ==
    \A p \in Procs :
        LET s == inv[p] IN
        s.manifest # "none"
            => /\ (s.pc = "build" \/ "build" \in s.cmds \cup s.failed)
                   <=> s.manifest = "build"
               /\ s.manifest \in {"missing", "invalid", "nobuild"}
                   => (s.pc = "execute" /\ s.err = "none")

\* C26 witness: the build ran in an invocation that skipped the install.
C26_Witness ==
    \E p \in Procs :
        LET s == inv[p] IN
        /\ s.manifest = "build"
        /\ s.pc = "execute"
        /\ "build" \in s.cmds
        /\ "install" \notin s.cmds \cup s.failed

UrlParsed == call.stage = "out" /\ call.kind = "url"

\* url.split('/')
RECURSIVE Split(_)
Split(t) ==
    LET n == NoSlashRun(t)
    IN  IF n = Len(t) THEN <<t>>
        ELSE <<SubSeq(t, 1, n)>> \o Split(Drop(t, n + 1))

\* What follows https://github.com/ in the URL, cut at the slashes.
UrlParts(url) == Split(Drop(url, Len(UrlPrefix)))

\* The accepted form: https://github.com/O/R, or that followed by /tree/B,
\* or that followed by / and a non-empty path; O, R and B are not empty.
AcceptedForm(url) ==
    /\ StartsWith(url, UrlPrefix)
    /\ LET parts == UrlParts(url)
       IN  /\ Len(parts) >= 2
           /\ parts[1] # <<>>
           /\ parts[2] # <<>>
           /\ \/ Len(parts) = 2
              \/ /\ Len(parts) >= 4
                 /\ parts[3] = <<"tree">>
                 /\ parts[4] # <<>>
                 /\ ~(Len(parts) = 5 /\ parts[5] = <<>>)

\* The repository name without its .git suffix.
WithoutGit(name) ==
    IF Len(name) >= 2 /\ name[Len(name)] = ".git"
    THEN SubSeq(name, 1, Len(name) - 1) ELSE name

\* C27: parseGitHubUrl gives, for https://github.com/O/R with or without
\* .git, owner O, repo R, branch main and an empty subPath; for
\* https://github.com/O/R/tree/B/sub/dir, branch B and subPath sub/dir; and
\* it throws exactly for the strings that are not of the accepted form.
C27_ParsesGitHubUrl ==
    UrlParsed
        => LET url == UrlOf(call)
               parts == UrlParts(url)
               out == call.out
           IN  /\ out.threw <=> ~AcceptedForm(url)
               /\ (AcceptedForm(url) /\ Len(parts) = 2)
                   => /\ out.owner = parts[1]
                      /\ out.repo = WithoutGit(parts[2])
                      /\ out.branch = <<"main">>
                      /\ out.subPath = <<>>
               /\ (AcceptedForm(url) /\ Len(parts) >= 5 /\ parts[Len(parts)] # <<>>)
                   => /\ out.owner = parts[1]
                      /\ out.repo = WithoutGit(parts[2])
                      /\ out.branch = parts[4]
                      /\ out.subPath = Join(SubSeq(parts, 5, Len(parts)))

\* C27 witness: https://github.com/a/a.git/tree/b/a/b parsed.
C27_Witness ==
    /\ UrlParsed
    /\ call.segs = <<(<<"a">>), <<"a", ".git">>, <<"tree">>, <<"b">> >>
    /\ call.tail = <<"/", "a", "/", "b">>
    /\ ~call.out.threw
    /\ call.out.repo = <<"a">>
    /\ call.out.branch = <<"b">>
    /\ call.out.subPath = <<"a", "/", "b">>

\* C28: the subPath parseGitHubUrl returns for an accepted URL does not
\* end with a slash.
C28_SubPathNoTrailingSlash ==
    (UrlParsed /\ ~call.out.threw)
        => \/ call.out.subPath = <<>>
           \/ call.out.subPath[Len(call.out.subPath)] # "/"

\* C29: when the build command exits non-zero or cannot be spawned, the
\* invocation ends with the build error and the final program is not
\* started.
C29_FailedBuildThrows ==
    \A p \in Procs :
        LET s == inv[p] IN
        "build" \in s.failed
            => /\ s.pc = "failed"
               /\ s.err = "build"
               /\ "execute" \notin s.cmds

\* C30: when the execution path is not there, runNpx throws at once: the
\* invocation ends with exit code 1 having started no install, build or
\* final program and no probe, and not having written the install marker.
C30_MissingPathFailsFirst ==
    \A p \in Procs :
        LET s == inv[p] IN
        s.noPath
            => /\ s.pc = "failed"
               /\ s.err = "nopath"
               /\ s.exit = 1
               /\ s.cmds \cap (StageCmds \cup {"probe"}) = {}
               /\ s.failed = {}
               /\ ~s.wroteInstall

\* C30 witness: the checkout is there, the sub-path is not.
C30_Witness ==
    \E p \in Procs :
        LET s == inv[p] IN
        /\ s.noPath
        /\ dirExists
        /\ s.pc = "failed"

\* prepareRepository found the checkout and returned without a command:
\* the refresh was skipped (fresh marker, or noUpdate).
SkippedRefresh(s) ==
    /\ s.preDir
    /\ Returned(s)
    /\ s.cmds = {}
    /\ s.failed = {}

\* The pull marker was last written a minute ago or longer.
MarkerStale == tLastPull >= 0 /\ now - tLastPull >= MsPerMinute

\* C31: an invocation that skips the refresh does not write the pull
\* marker, and an invocation without noUpdate that has checked a pull
\* marker last written a minute ago or longer has gone on to git fetch.
C31_StaleAlwaysRefreshes ==
    \A p \in Procs :
        LET s == inv[p] IN
        /\ SkippedRefresh(s) => ~s.wrotePull
        /\ (/\ s.preDir /\ ~s.noUpdate
            /\ s.pc \in SyncPcs /\ Checked(s)
            /\ MarkerStale)
            => (s.pc = "fetch" \/ "fetch" \in s.cmds \cup s.failed)

\* C31 witness: the marker was read, it was written a minute ago or
\* longer, and the invocation is about to fetch.
C31_Witness ==
    \E p \in Procs :
        LET s == inv[p] IN
        /\ s.preDir /\ ~s.noUpdate
        /\ s.mRead = "ok"
        /\ MarkerStale
        /\ s.pc = "fetch"

\* The invocation found the checkout absent and cloned it: the clone
\* exited with code 0 and nothing of the invocation has failed.
ClonedSuccessfully(s) ==
    /\ "clone" \in s.cmds
    /\ s.failed = {}
    /\ ~s.faults

\* C32: an invocation that has cloned the checkout successfully and is at
\* the start of runNpx or in its install stage still has the checkout
\* directory: the cleanup of another invocation's failed clone has not
\* removed it.
C32_CleanupSparesCheckout ==
    \A p \in Procs :
        LET s == inv[p] IN
        (ClonedSuccessfully(s) /\ s.pc \in {"prepared"} \cup InstallPcs)
            => dirExists

\* The invocation ran the install command, which exited with code 0, and
\* then wrote the install marker.
InstalledAndMarked(s) ==
    /\ s.pc = "buildCheck"
    /\ "install" \in s.cmds \ s.failed
    /\ s.wroteInstall

\* C33: the revision the install marker is made to name after an install is
\* the revision the checkout was at when the install command ran; a refresh
\* by another invocation between the install command and the marker write
\* does not make the marker name a revision that was never installed.
C33_MarkerNamesInstalledRevision ==
    \A p \in Procs : LET s == inv[p] IN
        InstalledAndMarked(s) => s.wHead = s.iHead

\* path lies strictly under root.
StrictlyUnder(path, root) ==
    /\ Len(path) > Len(root)
    /\ SubSeq(path, 1, Len(root)) = root

CheckoutLocated == call.stage = "dir" /\ call.kind = "url"

\* C34: for every target parseGitHubUrl returns, the checkout directory
\* prepareRepository computes lies strictly under the cache root.
C34_CheckoutUnderCacheRoot ==
    CheckoutLocated => StrictlyUnder(call.dir, CacheDir)

BothLocated == call.stage = "out" /\ call.kind = "paths"

\* C35: two targets that differ in owner, repo or branch are given different
\* checkout directories.
C35_DistinctTargetsDistinctDirs ==
    (BothLocated /\ call.t1 # call.t2) => call.d1 # call.d2

\* prepareRepository was called with noUpdate and found no checkout.
AbsentNoUpdate(s) ==
    /\ s.noUpdate
    /\ ~s.preDir
    /\ s.pc \notin {"idle", "prepare"}

\* C36: with no checkout at the cache path noUpdate changes nothing:
\* prepareRepository makes no freshness check and no refresh, it does not
\* return before the clone has run, it fails only with the clone error, and
\* after a clone that exited with code 0 (and no file operation failing) it
\* has written the pull marker when it returns.
C36_AbsentIgnoresNoUpdate ==
    \A p \in Procs : LET s == inv[p] IN
        AbsentNoUpdate(s) =>
            /\ s.mRead = "none"
            /\ s.cmds \cap RefreshCmds = {}
            /\ s.pc \notin ClonePcs => ("clone" \in s.cmds \/ s.err = "clone")
            /\ (/\ s.pc = "prepared"
                /\ "clone" \notin s.failed
                /\ ~s.faults) => s.wrotePull

\* C36 witness: called with noUpdate and nothing cached, prepareRepository
\* cloned, wrote the pull marker and returned.
C36_Witness ==
    \E p \in Procs : LET s == inv[p] IN
        /\ AbsentNoUpdate(s)
        /\ s.pc = "prepared"
        /\ "clone" \in s.cmds \ s.failed
        /\ s.wrotePull
        /\ pullMarker.exists

\* How far an invocation is: the control flow of main, prepareRepository
\* and runNpx only goes forward.
Rank(pc) ==
    CASE pc = "idle" -> 0
      [] pc = "prepare" -> 1
      [] pc = "wasRecentlyPulled" -> 2
      [] pc \in {"fetch", "mkdir"} -> 3
      [] pc \in {"revparse", "clone"} -> 4
      [] pc \in {"reset", "cloneCatch"} -> 5
      [] pc = "updateLastPullTime" -> 6
      [] pc = "prepared" -> 7
      [] pc = "needsInstall" -> 8
      [] pc = "install" -> 9
      [] pc = "updateSha" -> 10
      [] pc = "buildCheck" -> 11
      [] pc = "build" -> 12
      [] pc = "execute" -> 13
      [] pc \in {"done", "failed"} -> 14

\* The invocation has ended: with the program's exit code, or with an
\* error in main's catch block.
Ended(s) == s.pc \in {"done", "failed"}

\* C37: every invocation that has started ends, with the exit code of the
\* program or with an error, provided each awaited operation completes; and
\* every step of an invocation takes it to a later stage, so that no stage
\* is run twice.
C37_InvocationTerminates ==
    /\ \A p \in Procs : (inv[p].pc # "idle") ~> Ended(inv[p])
    /\ [][\A p \in Procs :
            (inv'[p] # inv[p] /\ ~Ended(inv[p]))
                => Rank(inv'[p].pc) > Rank(inv[p].pc)]_vars

\* C37 witness: an invocation that installed, built and ran the program
\* has ended with the program's exit code.
C37_Witness ==
    \E p \in Procs : LET s == inv[p] IN
        /\ s.pc = "done"
        /\ {"install", "build", "execute"} \subseteq s.cmds
        /\ s.exit = ExitCodeOf(s.code)

\* The request was answered with a result.
Answered == call.kind = "handle" /\ call.stage = "out"

\* What the handler counts as a failure of the orchestration.
HandlerFailures == {"url", "mkdir", "clone", "path", "install", "execute"}

\* C38: handleNghx never lets an exception out; a request with an invalid
\* URL, a failed clone, a failed install or a final command that did not
\* exit with code 0 is answered with isError = true; and a result has
\* isError = false only when the final program was launched and exited
\* with code 0.
C38_HandlerAlwaysAnswers ==
    call.kind = "handle" =>
        /\ call.stage # "rejected"
        /\ call.err # "none" => call.stage \in {"catch", "out"}
        /\ Answered =>
            /\ call.failed \cap HandlerFailures # {} => call.isError
            /\ call.err # "none" => call.isError
            /\ ~call.isError => (call.launched /\ call.code = 0)

\* C38 witness: the install command failed and the request was answered
\* with isError = true.
C38_Witness ==
    /\ Answered
    /\ "install" \in call.failed
    /\ call.err = "install"
    /\ call.isError

====
